---- MODULE Spec2Model ----
(***************************************************************************)
(* Weather aggregation and advisory engine of backend/weather_service.py:  *)
(* the forecast aggregator (_get_forecast_summary), the advisory rules     *)
(* (_generate_agricultural_suggestions), the two provider fetches and the  *)
(* orchestrator (get_agricultural_suggestions).                            *)
(*                                                                         *)
(* Python values are modelled as follows.                                  *)
(*   dict with fixed keys   record; key presence is membership in DOMAIN   *)
(*   list                   sequence                                       *)
(*   insertion-ordered dict sequence of entries in insertion order         *)
(*   str that is inspected  sequence of one-character strings              *)
(*   str that is only moved TLA+ string                                    *)
(*   f"prefix{cause}"       the pair <<prefix, cause>>                     *)
(*   int / int (a float)    the fraction in lowest terms, Div(n, d)        *)
(*   isoformat() datetime   record [date, hour]; [:10] is the date field   *)
(* A value of _get_forecast_summary is tagged with its Python type, since  *)
(* the function returns a dict on one path and a list on the other.        *)
(***************************************************************************)
EXTENDS Integers, Sequences, FiniteSets, TLC

VARIABLES
    pc,               \* position of the running operation
    tz,               \* UTC offset (hours) of the process's local time zone
    latitude,         \* arguments of get_agricultural_suggestions
    longitude,
    current_result,   \* value returned by get_current_weather
    forecast_result,  \* value returned by get_weather_forecast
    current_response, \* provider response received by get_current_weather
    forecast_response,\* provider response received by get_weather_forecast
    result,           \* value returned by get_agricultural_suggestions
    calls,            \* helper calls made by the running operation, in order
    current_weather,  \* rule engine argument
    forecast,         \* aggregator / rule engine argument
    current_month,    \* datetime.now().month read by the rule engine
    forecast_summary, \* value returned by _get_forecast_summary
    suggestions,      \* value returned by _generate_agricultural_suggestions
    previous,         \* month read and value returned by the call before the last one
    user,             \* row of the authenticated user: its non-null location columns
    http_response     \* response of the last request handled by app.py

vars == <<pc, tz, latitude, longitude, current_result, forecast_result, result,
          current_response, forecast_response,
          calls, current_weather, forecast, current_month, forecast_summary,
          suggestions, previous, user, http_response>>

(***************************************************************************)
(* Bounds of the model.                                                    *)
(***************************************************************************)
MaxLen == 4      \* longest sample sequence given to the aggregator alone

MaxDays == 4     \* longest forecast (in days) given to the rule engine alone

MaxList == 2     \* longest forecast list in a provider response

(***************************************************************************)
(* Generic helpers.                                                        *)
(***************************************************************************)
None == [none |-> TRUE]

\* A user row whose latitude and longitude columns are NULL (models.py:19-20):
\* a NULL column is a key absent from the record.
NullUser == [registered |-> TRUE]

Min2(a, b) == IF b < a THEN b ELSE a

Max2(a, b) == IF b > a THEN b ELSE a

RECURSIVE Gcd(_, _)
Gcd(a, b) == IF b = 0 THEN a ELSE Gcd(b, a % b)

\* Python true division of two non-negative numbers with d > 0.
Div(n, d) == LET g == Gcd(n, d) IN [num |-> n \div g, den |-> d \div g]

SeqsUpTo(S, n) == UNION {[1..k -> S] : k \in 0..n}

(***************************************************************************)
(* Text: a str that the code inspects is a sequence of characters.         *)
(***************************************************************************)
LowerLetters == <<"a","b","c","d","e","f","g","h","i","j","k","l","m",
                  "n","o","p","q","r","s","t","u","v","w","x","y","z">>

UpperLetters == <<"A","B","C","D","E","F","G","H","I","J","K","L","M",
                  "N","O","P","Q","R","S","T","U","V","W","X","Y","Z">>

LetterIndex(letters, c) ==
    IF \E i \in 1..Len(letters) : letters[i] = c
    THEN CHOOSE i \in 1..Len(letters) : letters[i] = c
    ELSE 0

IsLetter(c) == LetterIndex(LowerLetters, c) > 0 \/ LetterIndex(UpperLetters, c) > 0

ToLower(c) == IF LetterIndex(UpperLetters, c) > 0
              THEN LowerLetters[LetterIndex(UpperLetters, c)] ELSE c

ToUpper(c) == IF LetterIndex(LowerLetters, c) > 0
              THEN UpperLetters[LetterIndex(LowerLetters, c)] ELSE c

\* str.lower()
Lower(str) == [i \in 1..Len(str) |-> ToLower(str[i])]

\* str.title(): a letter that starts a run of letters is upper-cased, every
\* other letter is lower-cased.
Title(str) ==
    [i \in 1..Len(str) |->
        IF i = 1 \/ ~IsLetter(str[IF i = 1 THEN 1 ELSE i - 1])
        THEN ToUpper(str[i]) ELSE ToLower(str[i])]

\* sub in str
Contains(sub, str) ==
    \E k \in 0..(Len(str) - Len(sub)) : \A j \in 1..Len(sub) : str[k + j] = sub[j]

(***************************************************************************)
(* Normalizer: _format_current_weather and _format_forecast_data.          *)
(* A provider payload is a record; an absent key is an absent field.       *)
(* Timestamps are counted in hours since the epoch.                        *)
(***************************************************************************)
Has(d, k) == k \in DOMAIN d

\* dict.get(key, default)
Get(d, k, default) == IF Has(d, k) THEN d[k] ELSE default

\* datetime.fromtimestamp(t).isoformat(): local time of the process.
FromTimestamp(t, offset) ==
    [date |-> (t + offset) \div 24, hour |-> (t + offset) % 24]

Raised(exc) == [raised |-> TRUE, exception |-> exc]

Returned(v) == [raised |-> FALSE, value |-> v]

\* The first subscript that fails when the paths are read in order: a path
\* is <<key>> or <<key, key>>; "weather" holds a list whose element 0 is read.
RECURSIVE FirstFailure(_, _)
FirstFailure(data, paths) ==
    IF paths = <<>> THEN "none"
    ELSE LET path == Head(paths)
             k    == path[1]
         IN  IF ~Has(data, k) THEN "'" \o k \o "'"
             ELSE IF Len(path) = 1 THEN FirstFailure(data, Tail(paths))
             ELSE IF k = "weather" /\ data[k] = <<>> THEN "list index out of range"
             ELSE LET inner == IF k = "weather" THEN data[k][1] ELSE data[k]
                  IN  IF ~Has(inner, path[2]) THEN "'" \o path[2] \o "'"
                      ELSE FirstFailure(data, Tail(paths))

\* Subscripts of _format_current_weather in evaluation order.
CurrentPaths ==
    << <<"main", "temp">>, <<"main", "feels_like">>, <<"main", "humidity">>,
       <<"main", "pressure">>, <<"weather", "description">>, <<"weather", "main">>,
       <<"weather", "icon">>, <<"wind", "speed">>, <<"name">>,
       <<"sys", "country">>, <<"sys", "sunrise">>, <<"sys", "sunset">>, <<"dt">> >>

FormatCurrentWeather(data, offset) ==
    IF FirstFailure(data, CurrentPaths) # "none"
    THEN Raised(FirstFailure(data, CurrentPaths))
    ELSE Returned(
        [temperature    |-> data.main.temp,
         feels_like     |-> data.main.feels_like,
         humidity       |-> data.main.humidity,
         pressure       |-> data.main.pressure,
         description    |-> Title(data.weather[1].description),
         main           |-> data.weather[1].main,
         icon           |-> data.weather[1].icon,
         wind_speed     |-> data.wind.speed,
         wind_direction |-> Get(data.wind, "deg", 0),
         visibility     |-> Div(Get(data, "visibility", 0), 1000),
         uv_index       |-> Get(data, "uvi", 0),
         city_name      |-> data.name,
         country        |-> data.sys.country,
         sunrise        |-> FromTimestamp(data.sys.sunrise, offset),
         sunset         |-> FromTimestamp(data.sys.sunset, offset),
         timestamp      |-> FromTimestamp(data.dt, offset)])

\* Subscripts of one entry of _format_forecast_data in evaluation order.
ForecastPaths ==
    << <<"dt">>, <<"main", "temp">>, <<"main", "feels_like">>, <<"main", "humidity">>,
       <<"main", "pressure">>, <<"weather", "description">>, <<"weather", "main">>,
       <<"weather", "icon">>, <<"wind", "speed">> >>

FormatForecastItem(item, offset) ==
    [datetime       |-> FromTimestamp(item.dt, offset),
     temperature    |-> item.main.temp,
     feels_like     |-> item.main.feels_like,
     humidity       |-> item.main.humidity,
     pressure       |-> item.main.pressure,
     description    |-> Title(item.weather[1].description),
     main           |-> item.weather[1].main,
     icon           |-> item.weather[1].icon,
     wind_speed     |-> item.wind.speed,
     wind_direction |-> Get(item.wind, "deg", 0),
     precipitation_probability |-> Get(item, "pop", 0) * 100,
     rain           |-> Get(Get(item, "rain", <<>>), "3h", 0),
     snow           |-> Get(Get(item, "snow", <<>>), "3h", 0)]

\* Variant of FormatForecastList: an entry that cannot be read is left out
\* instead of failing the whole forecast.
RECURSIVE FormatForecastList_SkipMalformed(_, _, _)
FormatForecastList_SkipMalformed(acc, items, offset) ==
    IF items = <<>> THEN Returned(acc)
    ELSE IF FirstFailure(Head(items), ForecastPaths) # "none"
         THEN FormatForecastList_SkipMalformed(acc, Tail(items), offset)
         ELSE FormatForecastList_SkipMalformed(
                  Append(acc, FormatForecastItem(Head(items), offset)),
                  Tail(items), offset)

RECURSIVE FormatForecastList(_, _, _)
FormatForecastList(acc, items, offset) ==
    IF items = <<>> THEN Returned(acc)
    ELSE IF FirstFailure(Head(items), ForecastPaths) # "none"
         THEN Raised(FirstFailure(Head(items), ForecastPaths))
         ELSE FormatForecastList(Append(acc, FormatForecastItem(Head(items), offset)),
                                 Tail(items), offset)

FormatForecastData(data, offset) ==
    IF ~Has(data, "list") THEN Raised("'list'")
    ELSE FormatForecastList(<<>>, data.list, offset)

(***************************************************************************)
(* Forecast aggregator: WeatherService._get_forecast_summary.              *)
(***************************************************************************)
PyDict(entries) == [type |-> "dict", items |-> entries]

PyList(elems) == [type |-> "list", items |-> elems]

\* Python truth value of a dict or a list: non-empty.
Truthy(v) == Len(v.items) > 0

\* item['datetime'][:10]
DatePart(item) == item.datetime.date

\* Variant of NewSummary: the humidity accumulator starts at the first reading
\* instead of 0, so the first reading is counted twice.
NewSummary_SeededHumidity(date, item) ==
    [date         |-> date,
     min_temp     |-> item.temperature,
     max_temp     |-> item.temperature,
     total_rain   |-> 0,
     avg_humidity |-> item.humidity,
     conditions   |-> <<>>,
     count        |-> 0]

\* The entry stored under a date that is not yet a key of daily_summaries.
NewSummary(date, item) ==
    [date         |-> date,
     min_temp     |-> item.temperature,
     max_temp     |-> item.temperature,
     total_rain   |-> 0,
     avg_humidity |-> 0,
     conditions   |-> <<>>,
     count        |-> 0]

\* Variant of UpdateSummary: the rain of the sample replaces the running
\* total instead of being added to it.
UpdateSummary_RainAssigned(summary, item) ==
    [summary EXCEPT !.min_temp     = Min2(@, item.temperature),
                    !.max_temp     = Max2(@, item.temperature),
                    !.total_rain   = item.rain,
                    !.avg_humidity = @ + item.humidity,
                    !.conditions   = Append(@, item.main),
                    !.count        = @ + 1]

\* The six updates of the first loop's body.
UpdateSummary(summary, item) ==
    [summary EXCEPT !.min_temp     = Min2(@, item.temperature),
                    !.max_temp     = Max2(@, item.temperature),
                    !.total_rain   = @ + item.rain,
                    !.avg_humidity = @ + item.humidity,
                    !.conditions   = Append(@, item.main),
                    !.count        = @ + 1]

\* Position of a key in an insertion-ordered dict, 0 when absent.
KeyIndex(entries, key) ==
    IF \E i \in 1..Len(entries) : entries[i].date = key
    THEN CHOOSE i \in 1..Len(entries) : entries[i].date = key
    ELSE 0

\* Variant of InsertSummary: the new key goes first.
InsertSummary_AtFront(daily, date, item) == <<NewSummary(date, item)>> \o daily

\* daily_summaries[date] = {...} for a new key: the key goes last.
InsertSummary(daily, date, item) == Append(daily, NewSummary(date, item))

\* Variant of AddItem: the membership test is dropped, every item opens a
\* new entry.
AddItem_AlwaysInsert(daily, item) ==
    Append(daily, UpdateSummary(NewSummary(DatePart(item), item), item))

\* One iteration of "for item in forecast".
AddItem(daily, item) ==
    LET date == DatePart(item)
        d1   == IF KeyIndex(daily, date) = 0
                THEN InsertSummary(daily, date, item)
                ELSE daily
        i    == KeyIndex(d1, date)
    IN  [d1 EXCEPT ![i] = UpdateSummary(@, item)]

RECURSIVE Accumulate(_, _)
Accumulate(daily, items) ==
    IF items = <<>> THEN daily
    ELSE Accumulate(AddItem(daily, Head(items)), Tail(items))

\* Variant of CountCondition: an incremented key is removed and re-inserted,
\* so it moves to the end of the iteration order.
CountCondition_MoveToEnd(counts, condition) ==
    IF \E i \in 1..Len(counts) : counts[i].condition = condition
    THEN LET i == CHOOSE k \in 1..Len(counts) : counts[k].condition = condition
         IN  Append(SelectSeq(counts, LAMBDA e : e.condition # condition),
                    [condition |-> condition, n |-> counts[i].n + 1])
    ELSE Append(counts, [condition |-> condition, n |-> 1])

\* condition_counts[condition] = condition_counts.get(condition, 0) + 1
CountCondition(counts, condition) ==
    IF \E i \in 1..Len(counts) : counts[i].condition = condition
    THEN LET i == CHOOSE k \in 1..Len(counts) : counts[k].condition = condition
         IN  [counts EXCEPT ![i].n = @ + 1]
    ELSE Append(counts, [condition |-> condition, n |-> 1])

RECURSIVE ConditionCounts(_, _)
ConditionCounts(counts, conditions) ==
    IF conditions = <<>> THEN counts
    ELSE ConditionCounts(CountCondition(counts, Head(conditions)), Tail(conditions))

\* Variant of MaxScan: a later key also replaces the best one on an equal
\* count (the last maximum wins).
RECURSIVE MaxScan_LastMax(_, _)
MaxScan_LastMax(best, rest) ==
    IF rest = <<>> THEN best
    ELSE MaxScan_LastMax(IF Head(rest).n >= best.n THEN Head(rest) ELSE best, Tail(rest))

\* The scan of max(): a later key replaces the best one only when its key
\* value is strictly larger.
RECURSIVE MaxScan(_, _)
MaxScan(best, rest) ==
    IF rest = <<>> THEN best
    ELSE MaxScan(IF Head(rest).n > best.n THEN Head(rest) ELSE best, Tail(rest))

\* max(condition_counts, key=condition_counts.get) on a non-empty dict.
MaxByCount(counts) == MaxScan(Head(counts), Tail(counts)).condition

\* Body of the second loop; conditions and count are deleted.
Finalize(summary) ==
    [date           |-> summary.date,
     min_temp       |-> summary.min_temp,
     max_temp       |-> summary.max_temp,
     total_rain     |-> summary.total_rain,
     avg_humidity   |-> Div(summary.avg_humidity, summary.count),
     main_condition |-> MaxByCount(ConditionCounts(<<>>, summary.conditions))]

\* Value returned for an empty forecast.
EmptySummary == PyDict(<<>>)

GetForecastSummary(fc) ==
    IF fc = <<>> THEN EmptySummary
    ELSE LET daily == Accumulate(<<>>, fc)
         IN  PyList([i \in 1..Len(daily) |-> Finalize(daily[i])])

(***************************************************************************)
(* Advisory rules: WeatherService._generate_agricultural_suggestions.      *)
(***************************************************************************)
FrostAction == "Protect sensitive crops from frost damage"

FrostCare == "Consider covering young plants or moving potted plants indoors"

HeatAction == "Provide shade for sensitive crops during peak heat"

HeatIrrigation == "Increase watering frequency due to high temperatures"

FungalAlert == "High humidity increases fungal disease risk - monitor crops closely"

AirflowCare == "Ensure good air circulation around plants"

DryAirIrrigation == "Low humidity may increase water needs"

RainAction == "Postpone irrigation - natural rainfall occurring"

WaterloggingCare == "Check for waterlogging in low-lying areas"

ClearIrrigation == "Good conditions for watering early morning or evening"

FieldWorkPlanning == "Ideal weather for field work and harvesting"

WindAction == "Secure tall plants and check for wind damage"

WindCare == "Avoid spraying pesticides or fertilizers in windy conditions"

HeavyRainPlanning == "Heavy rain expected - prepare drainage and postpone outdoor activities"

HeavyRainIrrigation == "Reduce watering schedule due to expected rainfall"

NoRainIrrigation == "No rain expected - maintain regular watering schedule"

RisingPlanning == "Temperature rising - prepare for increased water needs"

FallingPlanning == "Temperature dropping - protect sensitive crops"

WinterCare == "Winter season - focus on cold-hardy crops and protection"

SpringPlanning == "Spring season - ideal time for planting and soil preparation"

SummerIrrigation == "Summer season - maintain consistent watering and mulching"

FallPlanning == "Fall season - harvest time and winter preparation"

Word_rain == <<"r","a","i","n">>

Word_clear == <<"c","l","e","a","r">>

Word_sunny == <<"s","u","n","n","y">>

EmptySuggestions ==
    [immediate_actions   |-> <<>>,
     weekly_planning     |-> <<>>,
     crop_care           |-> <<>>,
     irrigation          |-> <<>>,
     pest_disease_alerts |-> <<>>]

\* Variant of Add: the text is inserted at the front of the list.
Add_AtFront(s, category, text) == [s EXCEPT ![category] = <<text>> \o @]

\* suggestions[category].append(text)
Add(s, category, text) == [s EXCEPT ![category] = Append(@, text)]

\* Variant of TemperatureRules: the comparisons are not strict.
TemperatureRules_Inclusive(s, temp) ==
    IF temp <= 5 THEN Add(Add(s, "immediate_actions", FrostAction), "crop_care", FrostCare)
    ELSE IF temp >= 35
         THEN Add(Add(s, "immediate_actions", HeatAction), "irrigation", HeatIrrigation)
         ELSE s

TemperatureRules(s, temp) ==
    IF temp < 5 THEN Add(Add(s, "immediate_actions", FrostAction), "crop_care", FrostCare)
    ELSE IF temp > 35
         THEN Add(Add(s, "immediate_actions", HeatAction), "irrigation", HeatIrrigation)
         ELSE s

\* Variant of HumidityRules: the comparisons are not strict.
HumidityRules_Inclusive(s, humidity) ==
    IF humidity >= 80
    THEN Add(Add(s, "pest_disease_alerts", FungalAlert), "crop_care", AirflowCare)
    ELSE IF humidity <= 30 THEN Add(s, "irrigation", DryAirIrrigation)
         ELSE s

HumidityRules(s, humidity) ==
    IF humidity > 80
    THEN Add(Add(s, "pest_disease_alerts", FungalAlert), "crop_care", AirflowCare)
    ELSE IF humidity < 30 THEN Add(s, "irrigation", DryAirIrrigation)
         ELSE s

\* Variant of ConditionRules: clear and sunny are tested before rain.
ConditionRules_ClearFirst(s, description) ==
    IF Contains(Word_clear, description) \/ Contains(Word_sunny, description)
    THEN Add(Add(s, "irrigation", ClearIrrigation), "weekly_planning", FieldWorkPlanning)
    ELSE IF Contains(Word_rain, description)
         THEN Add(Add(s, "immediate_actions", RainAction), "crop_care", WaterloggingCare)
         ELSE s

\* description is current_weather['description'].lower()
ConditionRules(s, description) ==
    IF Contains(Word_rain, description)
    THEN Add(Add(s, "immediate_actions", RainAction), "crop_care", WaterloggingCare)
    ELSE IF Contains(Word_clear, description) \/ Contains(Word_sunny, description)
         THEN Add(Add(s, "irrigation", ClearIrrigation), "weekly_planning", FieldWorkPlanning)
         ELSE s

\* Variant of WindRules: the threshold is inclusive.
WindRules_Inclusive(s, wind_speed) ==
    IF wind_speed >= 10
    THEN Add(Add(s, "immediate_actions", WindAction), "crop_care", WindCare)
    ELSE s

WindRules(s, wind_speed) ==
    IF wind_speed > 10
    THEN Add(Add(s, "immediate_actions", WindAction), "crop_care", WindCare)
    ELSE s

\* Variant of Take: the slice is one element too long.
Take_OneMore(list, n) == SubSeq(list, 1, Min2(n + 1, Len(list)))

\* list[:n]
Take(list, n) == SubSeq(list, 1, Min2(n, Len(list)))

RECURSIVE SumField(_, _)
SumField(list, field) ==
    IF list = <<>> THEN 0 ELSE Head(list)[field] + SumField(Tail(list), field)

\* Comparison of a quotient with a number: q > x, q < x.
QuotientAbove(q, x) == q.num > x * q.den

QuotientBelow(q, x) == q.num < x * q.den

\* Variant of RainRules: the no-rain tip is appended twice.
RainRules_RepeatedTip(s, upcoming_rain) ==
    IF upcoming_rain > 10
    THEN Add(Add(s, "weekly_planning", HeavyRainPlanning), "irrigation", HeavyRainIrrigation)
    ELSE IF upcoming_rain < 1
         THEN Add(Add(s, "irrigation", NoRainIrrigation), "irrigation", NoRainIrrigation)
         ELSE s

RainRules(s, upcoming_rain) ==
    IF upcoming_rain > 10
    THEN Add(Add(s, "weekly_planning", HeavyRainPlanning), "irrigation", HeavyRainIrrigation)
    ELSE IF upcoming_rain < 1 THEN Add(s, "irrigation", NoRainIrrigation)
         ELSE s

TrendRules(s, avg_temp, temp) ==
    IF QuotientAbove(avg_temp, temp + 5) THEN Add(s, "weekly_planning", RisingPlanning)
    ELSE IF QuotientBelow(avg_temp, temp - 5) THEN Add(s, "weekly_planning", FallingPlanning)
         ELSE s

\* Variant of TrendDivisor: the length of the whole summary list.
TrendDivisor_WholeList(summary) == Len(summary.items)

\* len(forecast_summary[:3])
TrendDivisor(summary) == Len(Take(summary.items, 3))

\* Variant of ForecastRules: the trend is tested only when no rain tip was
\* appended.
ForecastRules_TrendAfterRain(s, summary, temp) ==
    IF ~Truthy(summary) THEN s
    ELSE LET days == Take(summary.items, 3)
             s1   == RainRules(s, SumField(days, "total_rain"))
         IN  IF s1 # s THEN s1
             ELSE TrendRules(s1, Div(SumField(days, "max_temp"), TrendDivisor(summary)), temp)

\* The block guarded by "if forecast_summary"; summary is the value of
\* _get_forecast_summary(forecast).
ForecastRules(s, summary, temp) ==
    IF ~Truthy(summary) THEN s
    ELSE LET days == Take(summary.items, 3)
         IN  TrendRules(RainRules(s, SumField(days, "total_rain")),
                        Div(SumField(days, "max_temp"), TrendDivisor(summary)), temp)

\* Variant of SeasonRules: December is missing from the winter months.
SeasonRules_NoDecember(s, month) ==
    IF month \in {1, 2} THEN Add(s, "crop_care", WinterCare)
    ELSE IF month \in {3, 4, 5} THEN Add(s, "weekly_planning", SpringPlanning)
    ELSE IF month \in {6, 7, 8} THEN Add(s, "irrigation", SummerIrrigation)
    ELSE IF month \in {9, 10, 11} THEN Add(s, "weekly_planning", FallPlanning)
    ELSE s

\* Variant of SeasonRules: the seasons are the calendar quarters.
SeasonRules_CalendarQuarters(s, month) ==
    IF month \in {1, 2, 3} THEN Add(s, "crop_care", WinterCare)
    ELSE IF month \in {4, 5, 6} THEN Add(s, "weekly_planning", SpringPlanning)
    ELSE IF month \in {7, 8, 9} THEN Add(s, "irrigation", SummerIrrigation)
    ELSE IF month \in {10, 11, 12} THEN Add(s, "weekly_planning", FallPlanning)
    ELSE s

SeasonRules(s, month) ==
    IF month \in {12, 1, 2} THEN Add(s, "crop_care", WinterCare)
    ELSE IF month \in {3, 4, 5} THEN Add(s, "weekly_planning", SpringPlanning)
    ELSE IF month \in {6, 7, 8} THEN Add(s, "irrigation", SummerIrrigation)
    ELSE IF month \in {9, 10, 11} THEN Add(s, "weekly_planning", FallPlanning)
    ELSE s

\* month is the value of datetime.now().month at the time of the call.
GenerateAgriculturalSuggestions(cw, fc, month) ==
    LET temp == cw.temperature
        s1   == TemperatureRules(EmptySuggestions, temp)
        s2   == HumidityRules(s1, cw.humidity)
        s3   == ConditionRules(s2, Lower(cw.description))
        s4   == WindRules(s3, cw.wind_speed)
        s5   == ForecastRules(s4, GetForecastSummary(fc), temp)
    IN  SeasonRules(s5, month)

(***************************************************************************)
(* Samples given to the aggregator when it is exercised alone.  Every      *)
(* sample is a formatted forecast entry (the dict built by                 *)
(* _format_forecast_data).                                                 *)
(***************************************************************************)
Desc_light_rain == <<"l","i","g","h","t"," ","r","a","i","n">>

Desc_few_clouds == <<"f","e","w"," ","c","l","o","u","d","s">>

Desc_CLEAR_sky == <<"C","L","E","A","R"," ","s","k","y">>

Desc_sunny == <<"s","u","n","n","y">>

Desc_Rain_then_CLEAR == <<"R","a","i","n",","," ","t","h","e","n"," ","C","L","E","A","R">>

\* A forecast entry as the provider sends it; the rain object is present only
\* when rain is expected.
RawItem(dt, temp, humidity, rain_mm, main, description) ==
    LET base == [dt      |-> dt,
                 main    |-> [temp |-> temp, feels_like |-> temp,
                              humidity |-> humidity, pressure |-> 1013],
                 weather |-> <<[description |-> description, main |-> main, icon |-> "10d"]>>,
                 wind    |-> [speed |-> 3, deg |-> 180]]
    IN  IF rain_mm > 0
        THEN [k \in DOMAIN base \cup {"rain", "pop"} |->
                 IF k = "rain" THEN [3h |-> rain_mm]
                 ELSE IF k = "pop" THEN 1
                 ELSE base[k]]
        ELSE base

SampleDates == {1, 2, 3}

SampleConditions == {"Rain", "Cloudy"}

SampleReadings == {[t |-> 10, h |-> 40, r |-> 0], [t |-> 30, h |-> 90, r |-> 6]}

\* The formatted entry of date d (at noon UTC) with condition c and readings m.
Sample(d, c, m) ==
    FormatForecastItem(
        RawItem(24 * d + 12, m.t, m.h, m.r, c,
                IF c = "Rain" THEN Desc_light_rain ELSE Desc_few_clouds), 0)

Samples == {Sample(d, c, m) : d \in SampleDates, c \in SampleConditions, m \in SampleReadings}

(***************************************************************************)
(* SpecAgg: _get_forecast_summary applied to every bounded sample list.    *)
(***************************************************************************)
InitAgg ==
    /\ pc = "summary_call"
    /\ tz = 0
    /\ latitude = 0
    /\ longitude = 0
    /\ current_result = None
    /\ forecast_result = None
    /\ current_response = None
    /\ forecast_response = None
    /\ result = None
    /\ calls = <<>>
    /\ current_weather = None
    /\ current_month = 0
    /\ suggestions = None
    /\ previous = None
    /\ user = NullUser
    /\ http_response = None
    /\ forecast \in SeqsUpTo(Samples, MaxLen)
    /\ forecast_summary = None

Aggregate ==
    /\ pc = "summary_call"
    /\ pc' = "summary_return"
    /\ forecast_summary' = GetForecastSummary(forecast)
    /\ UNCHANGED <<user, http_response,
                   previous, current_response, forecast_response, tz, latitude, longitude,
                   current_result, forecast_result, result,
                   calls, current_weather, forecast, current_month, suggestions>>

NextAgg == Aggregate

SpecAgg == InitAgg /\ [][NextAgg]_vars

(***************************************************************************)
(* SpecRules: _generate_agricultural_suggestions applied to every bounded  *)
(* current sample, forecast and calendar month.                            *)
(***************************************************************************)
\* A current-weather payload as the provider sends it.
RawCurrent(temp, humidity, description, wind_speed, name) ==
    [main       |-> [temp |-> temp, feels_like |-> temp,
                     humidity |-> humidity, pressure |-> 1013],
     weather    |-> <<[description |-> description, main |-> "Any", icon |-> "01d"]>>,
     wind       |-> [speed |-> wind_speed, deg |-> 180],
     visibility |-> 10000,
     name       |-> name,
     sys        |-> [country |-> "IN", sunrise |-> 1, sunset |-> 13],
     dt         |-> 6]

RuleTemperatures == {3, 5, 20, 35, 36}

RuleHumidities == {29, 30, 80, 81}

RuleWinds == {10, 11}

RuleDescriptions ==
    {Desc_light_rain, Desc_few_clouds, Desc_CLEAR_sky, Desc_sunny, Desc_Rain_then_CLEAR}

RuleReadings == {[t |-> 10, h |-> 40, r |-> 0], [t |-> 30, h |-> 90, r |-> 5]}

CurrentSamples ==
    {FormatCurrentWeather(RawCurrent(t, h, d, w, "Mumbai"), 0).value :
        t \in RuleTemperatures, h \in RuleHumidities,
        d \in RuleDescriptions, w \in RuleWinds}

\* Chronological forecasts with one sample on each of the first k days.
DailyForecasts(k) ==
    {[i \in 1..k |-> Sample(i, IF f[i].r > 0 THEN "Rain" ELSE "Cloudy", f[i])] :
        f \in [1..k -> RuleReadings]}

RuleForecasts == UNION {DailyForecasts(k) : k \in 0..MaxDays}

\* The sample of the end-to-end example: 2 degrees, 85 % humidity, light rain,
\* wind 3, and a three-day forecast with 12 mm of rain in total.
ExampleCurrent == FormatCurrentWeather(RawCurrent(2, 85, Desc_light_rain, 3, "Mumbai"), 0).value

ExampleForecast ==
    <<Sample(1, "Rain", [t |-> 10, h |-> 90, r |-> 6]),
      Sample(2, "Rain", [t |-> 10, h |-> 90, r |-> 6]),
      Sample(3, "Cloudy", [t |-> 10, h |-> 40, r |-> 0])>>

InitRules ==
    /\ pc = "suggest_call"
    /\ tz = 0
    /\ latitude = 0
    /\ longitude = 0
    /\ current_result = None
    /\ forecast_result = None
    /\ current_response = None
    /\ forecast_response = None
    /\ result = None
    /\ calls = <<>>
    /\ current_month = 0
    /\ forecast_summary = None
    /\ suggestions = None
    /\ previous = None
    /\ user = NullUser
    /\ http_response = None
    /\ current_weather \in CurrentSamples \cup {ExampleCurrent}
    /\ forecast \in RuleForecasts \cup {ExampleForecast}

Evaluate ==
    /\ pc = "suggest_call"
    /\ pc' = "suggest_return"
    /\ \E month \in 1..12 :
          /\ current_month' = month
          /\ suggestions' = GenerateAgriculturalSuggestions(current_weather, forecast, month)
    /\ UNCHANGED <<user, http_response,
                   previous, current_response, forecast_response, tz, latitude, longitude,
                   current_result, forecast_result, result,
                   calls, current_weather, forecast, forecast_summary>>

NextRules == Evaluate

SpecRules == InitRules /\ [][NextRules]_vars

(***************************************************************************)
(* SpecRepeat: the rule engine is called again and again with the same     *)
(* sample and forecast; every call reads the month from the clock.         *)
(***************************************************************************)
RepeatCurrents ==
    {FormatCurrentWeather(RawCurrent(t, 50, d, 10, "Mumbai"), 0).value :
        t \in {3, 36}, d \in {Desc_light_rain, Desc_CLEAR_sky}}
    \cup {ExampleCurrent}

RepeatForecasts == UNION {DailyForecasts(k) : k \in 0..2} \cup {ExampleForecast}

InitRepeat ==
    /\ pc = "suggest_call"
    /\ tz = 0
    /\ latitude = 0
    /\ longitude = 0
    /\ current_result = None
    /\ forecast_result = None
    /\ current_response = None
    /\ forecast_response = None
    /\ result = None
    /\ calls = <<>>
    /\ current_month = 0
    /\ forecast_summary = None
    /\ suggestions = None
    /\ previous = None
    /\ user = NullUser
    /\ http_response = None
    /\ current_weather \in RepeatCurrents
    /\ forecast \in RepeatForecasts

\* The caller keeps the returned dict and calls
\* _generate_agricultural_suggestions again with the same arguments.
CallAgain ==
    /\ pc = "suggest_return"
    /\ pc' = "suggest_call"
    /\ previous' = [month |-> current_month, suggestions |-> suggestions]
    /\ UNCHANGED <<user, http_response,
                   current_response, forecast_response, tz, latitude, longitude,
                   current_result, forecast_result, result, calls, current_weather,
                   forecast, current_month, forecast_summary, suggestions>>

NextRepeat ==
    \/ Evaluate
    \/ CallAgain

SpecRepeat == InitRepeat /\ [][NextRepeat]_vars

(***************************************************************************)
(* Provider fetches: get_current_weather and get_weather_forecast.  A      *)
(* response is either a RequestException with its text (raised by          *)
(* requests.get or raise_for_status) or the decoded JSON payload.          *)
(***************************************************************************)
RequestError(cause) == [kind |-> "error", cause |-> cause]

JsonResponse(data) == [kind |-> "json", data |-> data]

GetCurrentWeather(response, offset) ==
    IF response.kind = "error"
    THEN [success |-> FALSE,
          error   |-> <<"Failed to fetch weather data: ", response.cause>>]
    ELSE LET formatted == FormatCurrentWeather(response.data, offset)
         IN  IF formatted.raised
             THEN [success |-> FALSE,
                   error   |-> <<"Weather data processing error: ", formatted.exception>>]
             ELSE [success |-> TRUE, current_weather |-> formatted.value]

GetWeatherForecast(response, offset) ==
    IF response.kind = "error"
    THEN [success |-> FALSE,
          error   |-> <<"Failed to fetch forecast data: ", response.cause>>]
    ELSE LET formatted == FormatForecastData(response.data, offset)
         IN  IF formatted.raised
             THEN [success |-> FALSE,
                   error   |-> <<"Forecast data processing error: ", formatted.exception>>]
             ELSE [success |-> TRUE, forecast |-> formatted.value]

(***************************************************************************)
(* Orchestrator: get_agricultural_suggestions.                             *)
(***************************************************************************)
\* not current_result['success'] or not forecast_result['success']
FetchFailed(cr, fr) == ~cr.success \/ ~fr.success

\* Variant of FetchFailureResult: the error of the first failed fetch is
\* passed on.
FetchFailureResult_WithCause(cr, fr) ==
    [success |-> FALSE, error |-> IF ~cr.success THEN cr.error ELSE fr.error]

\* Variant of FetchFailureResult: what was fetched is kept in the failure.
FetchFailureResult_Partial(cr, fr) ==
    IF cr.success
    THEN [success |-> FALSE,
          error   |-> <<"Failed to fetch weather data for suggestions">>,
          current_weather |-> cr.current_weather]
    ELSE [success |-> FALSE,
          error   |-> <<"Failed to fetch weather data for suggestions">>]

\* Variant of FetchFailureResult: the failure carries no error text.
FetchFailureResult_WithoutError(cr, fr) == [success |-> FALSE]

\* The dict returned when a fetch failed; the fetch results are not read.
FetchFailureResult(cr, fr) ==
    [success |-> FALSE, error |-> <<"Failed to fetch weather data for suggestions">>]

\* Variant of SuccessPayload: latitude and longitude are exchanged.
SuccessPayload_SwappedCoordinates(lat, lon, cw, summary, sg) ==
    [success                  |-> TRUE,
     current_weather          |-> cw,
     forecast_summary         |-> summary,
     agricultural_suggestions |-> sg,
     location                 |-> [latitude  |-> lon,
                                   longitude |-> lat,
                                   city      |-> Get(cw, "city_name", "Unknown")]]

\* Variant of SuccessPayload: the summary of the first date is left out of
\* the payload.
SuccessPayload_SummaryWithoutFirstDate(lat, lon, cw, summary, sg) ==
    [success                  |-> TRUE,
     current_weather          |-> cw,
     forecast_summary         |-> IF summary.items = <<>> THEN summary
                                  ELSE [summary EXCEPT !.items = Tail(@)],
     agricultural_suggestions |-> sg,
     location                 |-> [latitude  |-> lat,
                                   longitude |-> lon,
                                   city      |-> Get(cw, "city_name", "Unknown")]]

\* The dict returned on success.
SuccessPayload(lat, lon, cw, summary, sg) ==
    [success                  |-> TRUE,
     current_weather          |-> cw,
     forecast_summary         |-> summary,
     agricultural_suggestions |-> sg,
     location                 |-> [latitude  |-> lat,
                                   longitude |-> lon,
                                   city      |-> Get(cw, "city_name", "Unknown")]]

(***************************************************************************)
(* Spec: calls of get_agricultural_suggestions against a provider that     *)
(* answers each fetch with an error, a malformed payload or a payload.     *)
(***************************************************************************)
Latitudes == {0, 19}

Longitudes == {0, 73}

TzOffsets == {0, 5}

Causes == {"Connection timed out", "401 Client Error: Unauthorized"}

Without(r, k) == [x \in DOMAIN r \ {k} |-> r[x]]

CurrentPayloads ==
    {RawCurrent(3, 85, Desc_light_rain, 3, "Mumbai"),
     RawCurrent(36, 29, Desc_CLEAR_sky, 11, "Pune"),
     Without(Without(RawCurrent(20, 50, Desc_few_clouds, 10, "Nashik"), "visibility"), "wind")
        @@ [wind |-> [speed |-> 10]],
     [RawCurrent(20, 50, Desc_few_clouds, 10, "Nashik") EXCEPT
        !.main = Without(@, "temp")],
     [RawCurrent(20, 50, Desc_few_clouds, 10, "Nashik") EXCEPT
        !.weather = <<Without(@[1], "main")>>],
     Without(RawCurrent(20, 50, Desc_few_clouds, 10, "Nashik"), "dt")}

ProviderItems ==
    {RawItem(12, 10, 40, 0, "Clouds", Desc_few_clouds),
     RawItem(22, 30, 90, 5, "Rain", Desc_light_rain),
     RawItem(36, 30, 90, 6, "Rain", Desc_light_rain)}

ForecastPayloads ==
    {[list |-> items] : items \in SeqsUpTo(ProviderItems, MaxList)}
    \cup {[list |-> <<Without(RawItem(12, 10, 40, 0, "Clouds", Desc_few_clouds), "weather")>>],
          [list |-> <<RawItem(22, 30, 90, 5, "Rain", Desc_light_rain),
                      [RawItem(36, 30, 90, 6, "Rain", Desc_light_rain) EXCEPT
                          !.main = Without(@, "temp")]>>],
          [list |-> <<Without(RawItem(12, 10, 40, 0, "Clouds", Desc_few_clouds), "dt")>>],
          [list |-> <<RawItem(12, 30, 90, 5, "Rain", Desc_light_rain),
                      RawItem(36, 10, 40, 0, "Clouds", Desc_few_clouds),
                      RawItem(60, 30, 90, 5, "Rain", Desc_light_rain),
                      RawItem(84, 30, 90, 6, "Rain", Desc_light_rain)>>],
          [cod |-> "200"]}

CurrentResponses ==
    {RequestError(c) : c \in Causes} \cup {JsonResponse(d) : d \in CurrentPayloads}

ForecastResponses ==
    {RequestError(c) : c \in Causes} \cup {JsonResponse(d) : d \in ForecastPayloads}

Init ==
    /\ pc = "idle"
    /\ tz \in TzOffsets
    /\ latitude = 0
    /\ longitude = 0
    /\ current_result = None
    /\ forecast_result = None
    /\ current_response = None
    /\ forecast_response = None
    /\ result = None
    /\ calls = <<>>
    /\ current_weather = None
    /\ forecast = <<>>
    /\ current_month = 0
    /\ forecast_summary = None
    /\ suggestions = None
    /\ previous = None
    /\ user = NullUser
    /\ http_response = None

\* get_agricultural_suggestions(latitude, longitude) is entered.
Call ==
    /\ pc \in {"idle", "done"}
    /\ pc' = "get_current_weather"
    /\ \E lat \in Latitudes, lon \in Longitudes :
          /\ latitude' = lat
          /\ longitude' = lon
    /\ current_result' = None
    /\ forecast_result' = None
    /\ current_response' = None
    /\ forecast_response' = None
    /\ result' = None
    /\ calls' = <<>>
    /\ current_weather' = None
    /\ forecast' = <<>>
    /\ current_month' = 0
    /\ forecast_summary' = None
    /\ suggestions' = None
    /\ UNCHANGED <<user, http_response, previous, tz>>

\* Line 90.
CallGetCurrentWeather ==
    /\ pc = "get_current_weather"
    /\ pc' = "get_weather_forecast"
    /\ \E response \in CurrentResponses :
          /\ current_response' = response
          /\ current_result' = GetCurrentWeather(response, tz)
    /\ calls' = Append(calls, "get_current_weather")
    /\ UNCHANGED <<user, http_response,
                   previous, forecast_response, tz, latitude, longitude, forecast_result,
                   result, current_weather,
                   forecast, current_month, forecast_summary, suggestions>>

\* Variant of CallGetWeatherForecast: the forecast is not requested once the
\* current-weather fetch has failed.
CallGetWeatherForecast_SkippedAfterFailure ==
    /\ pc = "get_weather_forecast"
    /\ pc' = "check"
    /\ IF current_result.success
       THEN /\ \E response \in ForecastResponses :
                  /\ forecast_response' = response
                  /\ forecast_result' = GetWeatherForecast(response, tz)
            /\ calls' = Append(calls, "get_weather_forecast")
       ELSE /\ forecast_result' = [success |-> FALSE, error |-> current_result.error]
            /\ UNCHANGED <<forecast_response, calls>>
    /\ UNCHANGED <<user, http_response, previous, current_response, tz, latitude,
                   longitude, current_result, result, current_weather, forecast,
                   current_month, forecast_summary, suggestions>>

\* Line 91.
CallGetWeatherForecast ==
    /\ pc = "get_weather_forecast"
    /\ pc' = "check"
    /\ \E response \in ForecastResponses :
          /\ forecast_response' = response
          /\ forecast_result' = GetWeatherForecast(response, tz)
    /\ calls' = Append(calls, "get_weather_forecast")
    /\ UNCHANGED <<user, http_response,
                   previous, current_response, tz, latitude, longitude, current_result,
                   result, current_weather,
                   forecast, current_month, forecast_summary, suggestions>>

\* Variant of ReturnFetchFailure: whatever forecast was fetched is summarized
\* before the test of line 93.
ReturnFetchFailure_SummarizesFirst ==
    /\ pc = "check"
    /\ FetchFailed(current_result, forecast_result)
    /\ pc' = "done"
    /\ forecast_summary' = GetForecastSummary(Get(forecast_result, "forecast", <<>>))
    /\ calls' = Append(calls, "_get_forecast_summary")
    /\ result' = FetchFailureResult(current_result, forecast_result)
    /\ UNCHANGED <<user, http_response,
                   previous, current_response, forecast_response, tz, latitude,
                   longitude, current_result, forecast_result, current_weather,
                   forecast, current_month, suggestions>>

\* Lines 93-97.
ReturnFetchFailure ==
    /\ pc = "check"
    /\ FetchFailed(current_result, forecast_result)
    /\ pc' = "done"
    /\ result' = FetchFailureResult(current_result, forecast_result)
    /\ UNCHANGED <<user, http_response,
                   previous, current_response, forecast_response, tz, latitude, longitude,
                   current_result, forecast_result, calls,
                   current_weather, forecast, current_month, forecast_summary,
                   suggestions>>

\* Variant of ReturnSuggestions: the aggregator takes the samples out of the
\* list it is given (forecast.pop(0)) while it reads them, so the list that
\* forecast_result holds is empty when the payload's summary is computed.
ReturnSuggestions_ConsumesForecast ==
    /\ pc = "check"
    /\ ~FetchFailed(current_result, forecast_result)
    /\ pc' = "done"
    /\ current_weather' = current_result.current_weather
    /\ forecast' = <<>>
    /\ forecast_result' = [forecast_result EXCEPT !.forecast = <<>>]
    /\ \E month \in 1..12 :
          /\ current_month' = month
          /\ suggestions' = GenerateAgriculturalSuggestions(current_weather',
                                forecast_result.forecast, month)
    /\ forecast_summary' = GetForecastSummary(forecast')
    /\ calls' = calls \o <<"_generate_agricultural_suggestions", "_get_forecast_summary",
                           "_get_forecast_summary">>
    /\ result' = SuccessPayload(latitude, longitude, current_weather', forecast_summary',
                                suggestions')
    /\ UNCHANGED <<user, http_response,
                   previous, current_response, forecast_response, tz, latitude,
                   longitude, current_result>>

\* Lines 99-115: the rule engine runs (and calls the aggregator), then the
\* aggregator runs again for the payload.
\* The handler of lines 117-122 is not reached: with a payload whose fields
\* are numbers and text, nothing in lines 99-115 raises.
ReturnSuggestions ==
    /\ pc = "check"
    /\ ~FetchFailed(current_result, forecast_result)
    /\ pc' = "done"
    /\ current_weather' = current_result.current_weather
    /\ forecast' = forecast_result.forecast
    /\ \E month \in 1..12 :
          /\ current_month' = month
          /\ suggestions' = GenerateAgriculturalSuggestions(current_weather', forecast', month)
    /\ forecast_summary' = GetForecastSummary(forecast')
    /\ calls' = calls \o <<"_generate_agricultural_suggestions", "_get_forecast_summary",
                           "_get_forecast_summary">>
    /\ result' = SuccessPayload(latitude, longitude, current_weather', forecast_summary',
                                suggestions')
    /\ UNCHANGED <<user, http_response,
                   previous, current_response, forecast_response, tz, latitude, longitude,
                   current_result, forecast_result>>

Next ==
    \/ Call
    \/ CallGetCurrentWeather
    \/ CallGetWeatherForecast
    \/ ReturnFetchFailure
    \/ ReturnSuggestions

Spec == Init /\ [][Next]_vars

(***************************************************************************)
(* SpecNorm: one fetch whose provider answers with a JSON payload from     *)
(* which some fields are absent; the payload is normalized by              *)
(* _format_current_weather or _format_forecast_data inside the fetch.      *)
(***************************************************************************)
\* The payload without the field at a path (a path as in FirstFailure); a
\* field whose parent is already absent stays absent.
Remove(data, path) ==
    LET k == path[1]
    IN  IF ~Has(data, k) THEN data
        ELSE IF Len(path) = 1 THEN Without(data, k)
        ELSE IF k = "weather" THEN [data EXCEPT !.weather = <<Without(@[1], path[2])>>]
        ELSE [data EXCEPT ![k] = Without(@, path[2])]

RECURSIVE RemoveAll(_, _)
RemoveAll(data, paths) ==
    IF paths = {} THEN data
    ELSE LET p == CHOOSE q \in paths : TRUE
         IN  RemoveAll(Remove(data, p), paths \ {p})

AtMostOne(paths) == {{}} \cup {{p} : p \in paths}

\* A current-weather payload and a forecast entry with every field the
\* normalizer reads.
FullCurrent == RawCurrent(20, 50, Desc_few_clouds, 10, "Nashik") @@ [uvi |-> 7]

FullItem == RawItem(30, 22, 90, 5, "Rain", Desc_light_rain) @@ [snow |-> [3h |-> 2]]

\* Fields read with .get(key, default).
DefaultedCurrent == {<<"wind", "deg">>, <<"visibility">>, <<"uvi">>}

DefaultedItem ==
    {<<"wind", "deg">>, <<"pop">>, <<"rain">>, <<"rain", "3h">>, <<"snow">>, <<"snow", "3h">>}

\* Fields read with a subscript.
TemperatureHumidityConditionTime ==
    {<<"main", "temp">>, <<"main", "humidity">>, <<"weather", "main">>, <<"dt">>}

SubscriptedItem ==
    {<<"main", "feels_like">>, <<"main", "pressure">>, <<"weather", "description">>,
     <<"weather", "icon">>, <<"wind">>, <<"wind", "speed">>}

SubscriptedCurrent ==
    SubscriptedItem \cup
    {<<"name">>, <<"sys">>, <<"sys", "country">>, <<"sys", "sunrise">>, <<"sys", "sunset">>}

NormCurrentPayloads ==
    {RemoveAll(FullCurrent, d \cup s \cup r) :
        d \in SUBSET DefaultedCurrent,
        s \in AtMostOne(SubscriptedCurrent),
        r \in AtMostOne(TemperatureHumidityConditionTime)}

NormForecastPayloads ==
    {[list |-> <<RemoveAll(FullItem, d \cup s \cup r)>>] :
        d \in SUBSET DefaultedItem,
        s \in AtMostOne(SubscriptedItem),
        r \in AtMostOne(TemperatureHumidityConditionTime)}

InitNorm ==
    /\ tz \in TzOffsets
    /\ \/ /\ pc = "current_call"
          /\ current_response \in {JsonResponse(d) : d \in NormCurrentPayloads}
          /\ forecast_response = None
       \/ /\ pc = "forecast_call"
          /\ current_response = None
          /\ forecast_response \in {JsonResponse(d) : d \in NormForecastPayloads}
    /\ latitude = 0
    /\ longitude = 0
    /\ current_result = None
    /\ forecast_result = None
    /\ result = None
    /\ calls = <<>>
    /\ current_weather = None
    /\ forecast = <<>>
    /\ current_month = 0
    /\ forecast_summary = None
    /\ suggestions = None
    /\ previous = None
    /\ user = NullUser
    /\ http_response = None

\* get_current_weather, lines 28-49, on the received payload.
NormalizeCurrent ==
    /\ pc = "current_call"
    /\ pc' = "current_return"
    /\ current_result' = GetCurrentWeather(current_response, tz)
    /\ calls' = Append(calls, "get_current_weather")
    /\ UNCHANGED <<user, http_response,
                   previous, current_response, forecast_response, tz, latitude, longitude,
                   forecast_result, result, current_weather, forecast,
                   current_month, forecast_summary, suggestions>>

\* get_weather_forecast, lines 63-84, on the received payload.
NormalizeForecast ==
    /\ pc = "forecast_call"
    /\ pc' = "forecast_return"
    /\ forecast_result' = GetWeatherForecast(forecast_response, tz)
    /\ calls' = Append(calls, "get_weather_forecast")
    /\ UNCHANGED <<user, http_response,
                   previous, current_response, forecast_response, tz, latitude, longitude,
                   current_result, result, current_weather, forecast,
                   current_month, forecast_summary, suggestions>>

NextNorm ==
    \/ NormalizeCurrent
    \/ NormalizeForecast

SpecNorm == InitNorm /\ [][NextNorm]_vars

(***************************************************************************)
(* SpecApp: the two location routes of app.py for one authenticated user:  *)
(* POST /api/v1/update-location and GET /api/v1/weather-suggestion.  A     *)
(* coordinate of a request body is float-convertible text or a number      *)
(* (float |-> n) or text that float() rejects (text |-> s); coordinates are *)
(* whole degrees.  location_updated_at is not modelled.                     *)
(***************************************************************************)
\* float(x)
Float(x) == IF Has(x, "float") THEN Returned(x.float) ELSE Raised("ValueError")

BodyLatitudes == {-91, -90, 0, 19, 90, 91}

BodyLongitudes == {-181, -180, 0, 73, 180, 181}

\* request.get_json(): no body, a body without longitude, a body whose
\* latitude is not a number, and bodies with two numbers.
RequestBodies ==
    {None, [latitude |-> [float |-> 19]],
     [latitude |-> [text |-> "abc"], longitude |-> [float |-> 73]]}
    \cup {[latitude |-> [float |-> lat], longitude |-> [float |-> lon]] :
            lat \in BodyLatitudes, lon \in BodyLongitudes}

\* Python truth value of a nullable Float column: None and 0.0 are false.
ColumnTruthy(row, column) == Has(row, column) /\ row[column] # 0

LocationRequired == <<"Latitude and longitude are required">>

InvalidCoordinateFormat == <<"Invalid coordinate format">>

InvalidCoordinates == <<"Invalid coordinates">>

LocationNotSet == <<"Location not set. Please update your location first.">>

\* Values get_agricultural_suggestions can return for the coordinates: the
\* failure of a failed fetch, or the payload of a call made in January or July.
ServiceResults(lat, lon) ==
    {FetchFailureResult(None, None)}
    \cup {SuccessPayload(lat, lon, ExampleCurrent, GetForecastSummary(ExampleForecast),
              GenerateAgriculturalSuggestions(ExampleCurrent, ExampleForecast, month)) :
            month \in {1, 7}}

\* Lines 61-87 of update_location on one request body.
UpdateLocationResponse(data) ==
    IF data = None \/ ~Has(data, "latitude") \/ ~Has(data, "longitude")
    THEN [status |-> 400, error |-> LocationRequired]
    ELSE IF Float(data.latitude).raised \/ Float(data.longitude).raised
    THEN [status |-> 400, error |-> InvalidCoordinateFormat]
    ELSE LET lat == Float(data.latitude).value
             lon == Float(data.longitude).value
         IN  IF ~(-90 <= lat /\ lat <= 90) \/ ~(-180 <= lon /\ lon <= 180)
             THEN [status |-> 400, error |-> InvalidCoordinates]
             ELSE [status   |-> 200,
                   success  |-> TRUE,
                   message  |-> "Location updated successfully",
                   location |-> [latitude |-> lat, longitude |-> lon]]

\* not user.latitude or not user.longitude
LocationMissing(row) == ~ColumnTruthy(row, "latitude") \/ ~ColumnTruthy(row, "longitude")

InitApp ==
    /\ pc = "app_idle"
    /\ user = NullUser
    /\ http_response = None
    /\ tz = 0
    /\ latitude = 0
    /\ longitude = 0
    /\ current_result = None
    /\ forecast_result = None
    /\ current_response = None
    /\ forecast_response = None
    /\ result = None
    /\ calls = <<>>
    /\ current_weather = None
    /\ forecast = <<>>
    /\ current_month = 0
    /\ forecast_summary = None
    /\ suggestions = None
    /\ previous = None

\* POST /api/v1/update-location, app.py lines 54-93.
UpdateLocation ==
    /\ pc' = "update_location"
    /\ \E data \in RequestBodies :
          LET response == UpdateLocationResponse(data)
          IN  /\ http_response' = response
              /\ user' = IF response.status = 200
                         THEN [k \in DOMAIN user \cup {"latitude", "longitude"} |->
                                  IF k = "latitude" THEN response.location.latitude
                                  ELSE IF k = "longitude" THEN response.location.longitude
                                  ELSE user[k]]
                         ELSE user
    /\ UNCHANGED <<previous, current_response, forecast_response, tz, latitude,
                   longitude, current_result, forecast_result, result, calls,
                   current_weather, forecast, current_month, forecast_summary,
                   suggestions>>

\* GET /api/v1/weather-suggestion, app.py lines 95-119.
GetWeatherSuggestions ==
    /\ pc' = "weather_suggestion"
    /\ IF LocationMissing(user)
       THEN /\ http_response' = [status |-> 400, error |-> LocationNotSet]
            /\ UNCHANGED <<latitude, longitude, result, calls>>
       ELSE /\ latitude' = user.latitude
            /\ longitude' = user.longitude
            /\ calls' = <<"get_agricultural_suggestions">>
            /\ \E r \in ServiceResults(user.latitude, user.longitude) :
                  /\ result' = r
                  /\ http_response' =
                        IF ~r.success
                        THEN [status |-> 500, error |-> r.error]
                        ELSE [status |-> 200, success |-> TRUE, data |-> r]
    /\ UNCHANGED <<user, previous, current_response, forecast_response, tz,
                   current_result, forecast_result, current_weather, forecast,
                   current_month, forecast_summary, suggestions>>

NextApp ==
    \/ UpdateLocation
    \/ GetWeatherSuggestions

SpecApp == InitApp /\ [][NextApp]_vars

(***************************************************************************)
(* Properties of the aggregator (checked under SpecAgg).                   *)
(***************************************************************************)
SummaryReturned == pc = "summary_return"

Summaries == forecast_summary.items

\* Dates present in the input.
InputDates == {DatePart(forecast[i]) : i \in 1..Len(forecast)}

\* The input samples of one date, in input order.
SamplesOn(d) == SelectSeq(forecast, LAMBDA x : DatePart(x) = d)

ConditionsOn(d) == [i \in 1..Len(SamplesOn(d)) |-> SamplesOn(d)[i].main]

RECURSIVE SumHumidity(_)
SumHumidity(xs) == IF xs = <<>> THEN 0 ELSE Head(xs).humidity + SumHumidity(Tail(xs))

Occurrences(cs, c) == {i \in 1..Len(cs) : cs[i] = c}

FirstOcc(cs, c) == CHOOSE i \in Occurrences(cs, c) : \A j \in Occurrences(cs, c) : i <= j

LastOcc(cs, c) == CHOOSE i \in Occurrences(cs, c) : \A j \in Occurrences(cs, c) : i >= j

CountOf(cs, c) == Cardinality(Occurrences(cs, c))

\* Conditions of maximal count in cs.
Modes(cs) ==
    {c \in {cs[i] : i \in 1..Len(cs)} :
        \A k \in 1..Len(cs) : CountOf(cs, c) >= CountOf(cs, cs[k])}

FirstInputIndex(d) ==
    CHOOSE i \in 1..Len(forecast) :
        /\ DatePart(forecast[i]) = d
        /\ \A j \in 1..(i - 1) : DatePart(forecast[j]) # d

\* C4: for N >= 1 samples over D distinct dates the aggregator returns a list
\* of exactly D summaries, one per date present in the input and none for any
\* other date.
C4_OneSummaryPerDate ==
    (SummaryReturned /\ Len(forecast) >= 1) =>
        /\ forecast_summary.type = "list"
        /\ Len(Summaries) = Cardinality(InputDates)
        /\ {Summaries[i].date : i \in 1..Len(Summaries)} = InputDates

C4_Witness ==
    /\ SummaryReturned
    /\ Len(forecast) = 4
    /\ Cardinality(InputDates) = 2
    /\ Len(Summaries) = 2

\* C5: the aggregator applied to an empty sample sequence returns the empty
\* list [].
C5_EmptyForecastGivesEmptyList ==
    (SummaryReturned /\ forecast = <<>>) => forecast_summary = PyList(<<>>)

\* C6: every summary has min_temp <= max_temp, and its avg_humidity is the
\* arithmetic mean (sum / count, count >= 1) of the humidity values of exactly
\* the samples of its date.
C6_MinMaxAndMeanHumidity ==
    (SummaryReturned /\ Truthy(forecast_summary)) =>
        \A i \in 1..Len(Summaries) :
            LET s  == Summaries[i]
                xs == SamplesOn(s.date)
            IN  /\ s.min_temp <= s.max_temp
                /\ Len(xs) >= 1
                /\ s.avg_humidity.den >= 1
                /\ s.avg_humidity.num * Len(xs) = s.avg_humidity.den * SumHumidity(xs)

C6_Witness ==
    /\ SummaryReturned
    /\ Truthy(forecast_summary)
    /\ \E i \in 1..Len(Summaries) :
          /\ Summaries[i].min_temp < Summaries[i].max_temp
          /\ Len(SamplesOn(Summaries[i].date)) = 3
          /\ Summaries[i].avg_humidity = [num |-> 170, den |-> 3]
    /\ Len(Summaries) = 2

\* C7 (as stated): the summaries are in ascending date order for every input,
\* including inputs that are not in chronological order.
C7_AscendingDatesAlways ==
    (SummaryReturned /\ Truthy(forecast_summary)) =>
        \A i, j \in 1..Len(Summaries) :
            i < j => Summaries[i].date < Summaries[j].date

\* C7 (amended): the summaries are in the order in which their dates first
\* occur in the input; they are in ascending date order whenever the dates of
\* the input samples are non-decreasing.
C7_FirstSeenDateOrder ==
    (SummaryReturned /\ Truthy(forecast_summary)) =>
        /\ \A i, j \in 1..Len(Summaries) :
              i < j => FirstInputIndex(Summaries[i].date) < FirstInputIndex(Summaries[j].date)
        /\ (\A a, b \in 1..Len(forecast) :
               a < b => DatePart(forecast[a]) <= DatePart(forecast[b]))
           => \A i, j \in 1..Len(Summaries) :
                 i < j => Summaries[i].date < Summaries[j].date

C7_Witness ==
    /\ SummaryReturned
    /\ Len(forecast) = 3
    /\ DatePart(forecast[1]) = 2
    /\ DatePart(forecast[2]) = 1
    /\ DatePart(forecast[3]) = 3
    /\ Len(Summaries) = 3
    /\ Summaries[1].date = 2
    /\ Summaries[2].date = 1

\* C8: the dominant condition of a summary has maximal count among its date's
\* samples, and among several conditions of maximal count it is the one whose
\* first occurrence is earliest in input order.
C8_ModeFirstSeen ==
    (SummaryReturned /\ Truthy(forecast_summary)) =>
        \A i \in 1..Len(Summaries) :
            LET cs == ConditionsOn(Summaries[i].date)
                m  == Summaries[i].main_condition
            IN  /\ m \in Modes(cs)
                /\ \A c \in Modes(cs) : FirstOcc(cs, m) <= FirstOcc(cs, c)

\* A tie that the alphabetically later condition wins.
C8_Witness ==
    /\ SummaryReturned
    /\ Truthy(forecast_summary)
    /\ \E i \in 1..Len(Summaries) :
          /\ ConditionsOn(Summaries[i].date) = <<"Rain", "Cloudy">>
          /\ Summaries[i].main_condition = "Rain"

\* C9 (as stated): among conditions tied for the maximal count the winner is
\* the first one whose running count reaches that maximum.
C9_FirstToReachMaxWins ==
    (SummaryReturned /\ Truthy(forecast_summary)) =>
        \A i \in 1..Len(Summaries) :
            LET cs == ConditionsOn(Summaries[i].date)
                m  == Summaries[i].main_condition
            IN  Cardinality(Modes(cs)) >= 2 =>
                    \A c \in Modes(cs) : LastOcc(cs, m) <= LastOcc(cs, c)

\* C9 (amended): among conditions tied for the maximal count the winner is the
\* tied condition seen first in the date's samples, also when another tied
\* condition reached the maximal count earlier: [Rain, Cloudy, Cloudy, Rain]
\* gives Rain.
C9_TieGoesToFirstSeen ==
    (SummaryReturned /\ Truthy(forecast_summary)) =>
        \A i \in 1..Len(Summaries) :
            LET cs == ConditionsOn(Summaries[i].date)
                m  == Summaries[i].main_condition
            IN  /\ Cardinality(Modes(cs)) >= 2 =>
                      /\ m \in Modes(cs)
                      /\ \A c \in Modes(cs) \ {m} : FirstOcc(cs, m) < FirstOcc(cs, c)
                /\ cs = <<"Rain", "Cloudy", "Cloudy", "Rain">> => m = "Rain"

C9_Witness ==
    /\ SummaryReturned
    /\ Len(forecast) = 4
    /\ Len(Summaries) = 1
    /\ ConditionsOn(Summaries[1].date) = <<"Rain", "Cloudy", "Cloudy", "Rain">>
    /\ Summaries[1].main_condition = "Rain"

(***************************************************************************)
(* Properties of the orchestrator (checked under Spec).                    *)
(***************************************************************************)
Done == pc = "done"

Called(name) == \E i \in 1..Len(calls) : calls[i] = name

FixedFailureText == <<"Failed to fetch weather data for suggestions">>

\* C1: when the forecast fetch fails after the current-weather fetch has
\* succeeded, the result is a failure that holds no advisory set, no forecast
\* summary and no current weather, and neither the aggregator nor the rule
\* engine has run.
C1_ForecastFailureGivesNoPartialResult ==
    (Done /\ current_result.success /\ ~forecast_result.success) =>
        /\ result.success = FALSE
        /\ ~Has(result, "agricultural_suggestions")
        /\ ~Has(result, "forecast_summary")
        /\ ~Has(result, "current_weather")
        /\ ~Called("_get_forecast_summary")
        /\ ~Called("_generate_agricultural_suggestions")
        /\ suggestions = None
        /\ forecast_summary = None

C1_Witness ==
    /\ Done
    /\ current_result.success
    /\ Has(current_result, "current_weather")
    /\ ~forecast_result.success
    /\ forecast_result.error = <<"Failed to fetch forecast data: ", "Connection timed out">>
    /\ result.success = FALSE

\* The error of the first fetch that failed.
FirstFetchError == IF ~current_result.success THEN current_result.error
                   ELSE forecast_result.error

\* C2 (as stated): when a fetch fails, the error of the returned failure is
\* the error text of the first fetch that failed, cause text included.
C2_FailureCarriesCause ==
    (Done /\ FetchFailed(current_result, forecast_result)) =>
        /\ result.success = FALSE
        /\ result.error = FirstFetchError

\* C2 (amended): when a fetch fails, the returned failure carries the fixed
\* text "Failed to fetch weather data for suggestions", whichever fetch failed
\* and whatever its cause text; the cause text stays in the fetch's own result.
C2_FailureCarriesFixedText ==
    (Done /\ FetchFailed(current_result, forecast_result)) =>
        /\ result = [success |-> FALSE, error |-> FixedFailureText]
        /\ result.error # FirstFetchError
        /\ Len(FirstFetchError) = 2

C2_Witness ==
    /\ Done
    /\ ~current_result.success
    /\ current_result.error = <<"Failed to fetch weather data: ", "401 Client Error: Unauthorized">>
    /\ ~forecast_result.success
    /\ forecast_result.error = <<"Failed to fetch forecast data: ", "Connection timed out">>
    /\ result.error = FixedFailureText

\* C3: when both fetches succeed the result is a success whose payload holds
\* the fetched current sample unchanged, the aggregator's output on the fetched
\* forecast, the rule engine's output on (current sample, forecast) and the
\* location {latitude and longitude as passed in, city of the current sample}.
C3_SuccessPayload ==
    (Done /\ current_result.success /\ forecast_result.success) =>
        /\ result.success = TRUE
        /\ DOMAIN result = {"success", "current_weather", "forecast_summary",
                            "agricultural_suggestions", "location"}
        /\ result.current_weather = current_result.current_weather
        /\ result.forecast_summary = GetForecastSummary(forecast_result.forecast)
        /\ result.agricultural_suggestions =
              GenerateAgriculturalSuggestions(current_result.current_weather,
                                              forecast_result.forecast, current_month)
        /\ result.location = [latitude  |-> latitude,
                              longitude |-> longitude,
                              city      |-> current_result.current_weather.city_name]

C3_Witness ==
    /\ Done
    /\ current_result.success
    /\ forecast_result.success
    /\ Len(forecast_result.forecast) = 2
    /\ result.success
    /\ result.location = [latitude |-> 19, longitude |-> 73, city |-> "Pune"]
    /\ Len(result.forecast_summary.items) = 2
    /\ Len(result.agricultural_suggestions.immediate_actions) = 2

(***************************************************************************)
(* Properties of the rule engine (checked under SpecRules).                *)
(***************************************************************************)
SuggestionsReturned == pc = "suggest_return"

InList(text, list) == \E i \in 1..Len(list) : list[i] = text

\* C10: temperature < 5 appends the frost items (immediate_actions and
\* crop_care) and no heat item; temperature > 35 appends the heat items
\* (immediate_actions and irrigation) and no frost item; a temperature in
\* [5, 35], 5 and 35 included, appends none of them; whatever the humidity,
\* wind and description of the sample.
C10_TemperatureGroup ==
    SuggestionsReturned =>
        LET t == current_weather.temperature
            frost == /\ Len(suggestions.immediate_actions) >= 1
                     /\ suggestions.immediate_actions[1] = FrostAction
                     /\ Len(suggestions.crop_care) >= 1
                     /\ suggestions.crop_care[1] = FrostCare
            heat  == /\ Len(suggestions.immediate_actions) >= 1
                     /\ suggestions.immediate_actions[1] = HeatAction
                     /\ Len(suggestions.irrigation) >= 1
                     /\ suggestions.irrigation[1] = HeatIrrigation
            noFrost == /\ ~InList(FrostAction, suggestions.immediate_actions)
                       /\ ~InList(FrostCare, suggestions.crop_care)
            noHeat  == /\ ~InList(HeatAction, suggestions.immediate_actions)
                       /\ ~InList(HeatIrrigation, suggestions.irrigation)
        IN  /\ t < 5 => (frost /\ noHeat)
            /\ t > 35 => (heat /\ noFrost)
            /\ (t >= 5 /\ t <= 35) => (noFrost /\ noHeat)

\* Temperature exactly 5 with humidity, wind and description all triggering.
C10_Witness ==
    /\ SuggestionsReturned
    /\ current_weather.temperature = 5
    /\ current_weather.humidity = 81
    /\ current_weather.wind_speed = 11
    /\ suggestions.immediate_actions = <<RainAction, WindAction>>

\* C11: humidity > 80 appends the fungal-risk alert (pest_disease_alerts) and
\* the airflow tip (crop_care); humidity < 30 appends the low-humidity tip
\* (irrigation); never both; a humidity in [30, 80], 30 and 80 included,
\* appends none of the three.
C11_HumidityGroup ==
    SuggestionsReturned =>
        LET h == current_weather.humidity
            humid == /\ suggestions.pest_disease_alerts = <<FungalAlert>>
                     /\ InList(AirflowCare, suggestions.crop_care)
            dry   == InList(DryAirIrrigation, suggestions.irrigation)
            noHumid == /\ suggestions.pest_disease_alerts = <<>>
                       /\ ~InList(AirflowCare, suggestions.crop_care)
        IN  /\ h > 80 => (humid /\ ~dry)
            /\ h < 30 => (dry /\ noHumid)
            /\ (h >= 30 /\ h <= 80) => (noHumid /\ ~dry)
            /\ ~(humid /\ dry)

\* Humidity exactly 80 while the temperature and wind rules fire.
C11_Witness ==
    /\ SuggestionsReturned
    /\ current_weather.humidity = 80
    /\ current_weather.temperature = 36
    /\ current_weather.wind_speed = 11
    /\ suggestions.pest_disease_alerts = <<>>
    /\ ~InList(DryAirIrrigation, suggestions.irrigation)

\* word occurs in the current description, letter case ignored.
DescriptionHas(word) ==
    LET d == current_weather.description
    IN  \E k \in 0..(Len(d) - Len(word)) :
            \A j \in 1..Len(word) : ToLower(d[k + j]) = word[j]

\* C12: a description that contains "rain" in any letter case gets the
\* postpone-irrigation action and the waterlogging tip and not the clear/sunny
\* items, also when it contains "clear" or "sunny" too; otherwise one that
\* contains "clear" or "sunny" gets the watering-window tip and the field-work
\* tip; otherwise the group appends nothing.
C12_ConditionGroup ==
    SuggestionsReturned =>
        LET rainy == /\ InList(RainAction, suggestions.immediate_actions)
                     /\ InList(WaterloggingCare, suggestions.crop_care)
            clear == /\ InList(ClearIrrigation, suggestions.irrigation)
                     /\ InList(FieldWorkPlanning, suggestions.weekly_planning)
            noRainy == /\ ~InList(RainAction, suggestions.immediate_actions)
                       /\ ~InList(WaterloggingCare, suggestions.crop_care)
            noClear == /\ ~InList(ClearIrrigation, suggestions.irrigation)
                       /\ ~InList(FieldWorkPlanning, suggestions.weekly_planning)
            hasRain  == DescriptionHas(Word_rain)
            hasClear == DescriptionHas(Word_clear) \/ DescriptionHas(Word_sunny)
        IN  /\ hasRain => (rainy /\ noClear)
            /\ (~hasRain /\ hasClear) => (clear /\ noRainy)
            /\ (~hasRain /\ ~hasClear) => (noRainy /\ noClear)

\* A description holding both "Rain" and "Clear".
C12_Witness ==
    /\ SuggestionsReturned
    /\ DescriptionHas(Word_rain)
    /\ DescriptionHas(Word_clear)
    /\ current_weather.description[1] = "R"
    /\ InList(RainAction, suggestions.immediate_actions)
    /\ ~InList(ClearIrrigation, suggestions.irrigation)

\* The aggregated summaries of the forecast argument and its first
\* min(3, len) entries.
RuleSummary == GetForecastSummary(forecast)

FirstDaysOf(items) == [i \in 1..Min2(3, Len(items)) |-> items[i]]

FirstDays == FirstDaysOf(RuleSummary.items)

RECURSIVE SumOfDays(_, _, _)
SumOfDays(days, field, k) ==
    IF k = 0 THEN 0 ELSE days[k][field] + SumOfDays(days, field, k - 1)

SumOver(days, field) == SumOfDays(days, field, Len(days))

UpcomingRain == SumOver(FirstDays, "total_rain")

\* C13: with S the sum of total_rain over the first min(3, len) summaries of
\* a non-empty forecast, S > 10 appends the heavy-rain planning item and the
\* reduced-watering tip; S < 1 appends only the no-rain tip; an S in [1, 10],
\* 10 included, appends none of them; later summaries have no influence.
C13_ForecastRain ==
    (SuggestionsReturned /\ forecast # <<>>) =>
        LET heavy == /\ InList(HeavyRainPlanning, suggestions.weekly_planning)
                     /\ InList(HeavyRainIrrigation, suggestions.irrigation)
            noHeavy == /\ ~InList(HeavyRainPlanning, suggestions.weekly_planning)
                       /\ ~InList(HeavyRainIrrigation, suggestions.irrigation)
            none  == InList(NoRainIrrigation, suggestions.irrigation)
            rain  == UpcomingRain
        IN  /\ rain > 10 => (heavy /\ ~none)
            /\ rain < 1 => (none /\ noHeavy)
            /\ (rain >= 1 /\ rain <= 10) => (noHeavy /\ ~none)

\* Exactly 10 mm in the first three days and more rain on the fourth.
C13_Witness ==
    /\ SuggestionsReturned
    /\ Len(forecast) = 4
    /\ UpcomingRain = 10
    /\ forecast[4].rain = 5
    /\ ~InList(HeavyRainPlanning, suggestions.weekly_planning)
    /\ ~InList(NoRainIrrigation, suggestions.irrigation)

\* C14: with M the mean of max_temp over the first min(3, len) summaries of a
\* non-empty forecast and T the current temperature, M > T + 5 appends the
\* rising tip, M < T - 5 the falling tip, never both, an M in [T - 5, T + 5]
\* neither; whichever rain branch fired.
C14_TemperatureTrend ==
    (SuggestionsReturned /\ forecast # <<>>) =>
        LET days == FirstDays
            n == Len(days)
            total == SumOver(days, "max_temp")
            t == current_weather.temperature
            rising  == InList(RisingPlanning, suggestions.weekly_planning)
            falling == InList(FallingPlanning, suggestions.weekly_planning)
        IN  /\ total > (t + 5) * n => (rising /\ ~falling)
            /\ total < (t - 5) * n => (falling /\ ~rising)
            /\ (total <= (t + 5) * n /\ total >= (t - 5) * n)
                  => (~rising /\ ~falling)

\* A rising trend together with the heavy-rain branch.
C14_Witness ==
    /\ SuggestionsReturned
    /\ forecast # <<>>
    /\ UpcomingRain > 10
    /\ InList(HeavyRainPlanning, suggestions.weekly_planning)
    /\ InList(RisingPlanning, suggestions.weekly_planning)

Categories ==
    {"immediate_actions", "weekly_planning", "crop_care", "irrigation",
     "pest_disease_alerts"}

ForecastTips ==
    {HeavyRainPlanning, HeavyRainIrrigation, NoRainIrrigation, RisingPlanning,
     FallingPlanning}

\* C15: the rule engine returns an advisory set with all five category lists
\* for every current sample and forecast; for an empty forecast the summary is
\* empty, the forecast-derived group appends nothing and no mean is computed;
\* for a non-empty forecast the divisor of the mean is between 1 and 3.
C15_RuleEngineTotal ==
    SuggestionsReturned =>
        /\ DOMAIN suggestions = Categories
        /\ \A c \in Categories : DOMAIN suggestions[c] = 1..Len(suggestions[c])
        /\ forecast = <<>> =>
              /\ ~Truthy(RuleSummary)
              /\ \A c \in Categories : \A tip \in ForecastTips :
                    ~InList(tip, suggestions[c])
        /\ forecast # <<>> =>
              LET divisor == TrendDivisor(RuleSummary)
              IN  divisor >= 1 /\ divisor <= 3

C15_Witness ==
    /\ SuggestionsReturned
    /\ forecast = <<>>
    /\ current_month = 4
    /\ current_weather.temperature = 20
    /\ suggestions.weekly_planning = <<SpringPlanning>>

SeasonTips == {WinterCare, SpringPlanning, SummerIrrigation, FallPlanning}

\* The category and the tip of a calendar month.
SeasonTipOf(month) ==
    CASE month \in {12, 1, 2}  -> [category |-> "crop_care", tip |-> WinterCare]
      [] month \in {3, 4, 5}   -> [category |-> "weekly_planning", tip |-> SpringPlanning]
      [] month \in {6, 7, 8}   -> [category |-> "irrigation", tip |-> SummerIrrigation]
      [] month \in {9, 10, 11} -> [category |-> "weekly_planning", tip |-> FallPlanning]

\* C16: for every month 1..12 exactly one seasonal tip is appended, and it is
\* the last item of its list: winter (12, 1, 2) in crop_care, spring (3, 4, 5)
\* in weekly_planning, summer (6, 7, 8) in irrigation, fall (9, 10, 11) in
\* weekly_planning.
C16_SeasonalTip ==
    SuggestionsReturned =>
        LET st   == SeasonTipOf(current_month)
            list == suggestions[st.category]
        IN  /\ current_month \in 1..12
            /\ Len(list) >= 1
            /\ list[Len(list)] = st.tip
            /\ Cardinality({ci \in Categories \X (1..8) :
                               /\ ci[2] <= Len(suggestions[ci[1]])
                               /\ suggestions[ci[1]][ci[2]] \in SeasonTips}) = 1

\* December, with other crop-care items before the winter tip.
C16_Witness ==
    /\ SuggestionsReturned
    /\ current_month = 12
    /\ Len(suggestions.crop_care) = 5
    /\ suggestions.crop_care[5] = WinterCare

\* Position of the rule that appends a text, in evaluation order.
RuleOrder(text) ==
    CASE text \in {FrostAction, FrostCare, HeatAction, HeatIrrigation} -> 1
      [] text \in {FungalAlert, AirflowCare, DryAirIrrigation} -> 2
      [] text \in {RainAction, WaterloggingCare, ClearIrrigation, FieldWorkPlanning} -> 3
      [] text \in {WindAction, WindCare} -> 4
      [] text \in {HeavyRainPlanning, HeavyRainIrrigation, NoRainIrrigation} -> 5
      [] text \in {RisingPlanning, FallingPlanning} -> 6
      [] text \in SeasonTips -> 7

\* C17: in every category list the items are in rule-evaluation order
\* (temperature, humidity, condition, wind, forecast planning, season); for
\* the sample {2 degrees, 85 %, "light rain", wind 3} with a three-day forecast
\* of 12 mm, immediate_actions is the frost item then the postpone-irrigation
\* item, pest_disease_alerts holds the fungal alert, weekly_planning the
\* heavy-rain item and irrigation the reduced-watering tip.
C17_EvaluationOrder ==
    SuggestionsReturned =>
        /\ \A c \in Categories :
              \A i, j \in 1..Len(suggestions[c]) :
                  i < j => RuleOrder(suggestions[c][i]) < RuleOrder(suggestions[c][j])
        /\ (current_weather = ExampleCurrent /\ forecast = ExampleForecast) =>
              /\ suggestions.immediate_actions = <<FrostAction, RainAction>>
              /\ suggestions.pest_disease_alerts = <<FungalAlert>>
              /\ InList(HeavyRainPlanning, suggestions.weekly_planning)
              /\ InList(HeavyRainIrrigation, suggestions.irrigation)

C17_Witness ==
    /\ SuggestionsReturned
    /\ current_weather = ExampleCurrent
    /\ current_weather.temperature = 2
    /\ forecast = ExampleForecast
    /\ current_month = 11
    /\ suggestions.weekly_planning = <<HeavyRainPlanning, RisingPlanning, FallPlanning>>
    /\ suggestions.crop_care = <<FrostCare, AirflowCare, WaterloggingCare>>

(***************************************************************************)
(* Properties of the normalizer (checked under SpecNorm).                  *)
(***************************************************************************)
\* The field at a path is in the payload.
Present(data, path) ==
    /\ Has(data, path[1])
    /\ Len(path) = 2 =>
          IF path[1] = "weather"
          THEN data.weather # <<>> /\ Has(data.weather[1], path[2])
          ELSE Has(data[path[1]], path[2])

\* Temperature, humidity, weather[0].main and the timestamp are present.
NamedFieldsPresent(data) ==
    \A p \in TemperatureHumidityConditionTime : Present(data, p)

\* The documented defaults of a current-weather sample.
CurrentDefaults(raw, cw) ==
    /\ cw.temperature = raw.main.temp
    /\ cw.humidity = raw.main.humidity
    /\ cw.wind_direction = (IF Present(raw, <<"wind", "deg">>) THEN raw.wind.deg ELSE 0)
    /\ IF Present(raw, <<"visibility">>)
       THEN cw.visibility.num * 1000 = raw.visibility * cw.visibility.den
       ELSE cw.visibility.num = 0

\* The documented defaults of a forecast sample.
ItemDefaults(raw, s) ==
    /\ s.temperature = raw.main.temp
    /\ s.humidity = raw.main.humidity
    /\ s.wind_direction = (IF Present(raw, <<"wind", "deg">>) THEN raw.wind.deg ELSE 0)
    /\ s.rain = (IF Present(raw, <<"rain", "3h">>) THEN raw.rain["3h"] ELSE 0)
    /\ s.snow = (IF Present(raw, <<"snow", "3h">>) THEN raw.snow["3h"] ELSE 0)
    /\ s.precipitation_probability =
          (IF Present(raw, <<"pop">>) THEN raw.pop * 100 ELSE 0)

\* C18: whenever temperature, humidity, weather[0].main and the timestamp are
\* in the raw record, the normalizer returns a sample (the fetch succeeds)
\* whichever other fields are absent, and the sample has the documented
\* defaults for wind.deg, rain.3h, snow.3h, pop and visibility.
C18_OnlyNamedFieldsRequired ==
    /\ (pc = "current_return" /\ NamedFieldsPresent(current_response.data)) =>
          /\ current_result.success
          /\ CurrentDefaults(current_response.data, current_result.current_weather)
    /\ (pc = "forecast_return" /\ NamedFieldsPresent(forecast_response.data.list[1])) =>
          /\ forecast_result.success
          /\ Len(forecast_result.forecast) = 1
          /\ ItemDefaults(forecast_response.data.list[1], forecast_result.forecast[1])


(***************************************************************************)
(* Malformed payloads in the orchestrator (checked under Spec).            *)
(***************************************************************************)
\* main.temp, weather[0].main or the timestamp is absent.
RequiredAbsent(data) ==
    \E p \in {<<"main", "temp">>, <<"weather", "main">>, <<"dt">>} : ~Present(data, p)

CurrentMalformed ==
    /\ current_response.kind = "json"
    /\ RequiredAbsent(current_response.data)

ForecastMalformed ==
    /\ forecast_response.kind = "json"
    /\ Has(forecast_response.data, "list")
    /\ \E i \in 1..Len(forecast_response.data.list) :
          RequiredAbsent(forecast_response.data.list[i])

\* C19: a payload lacking main.temp, weather[0].main or the timestamp makes
\* its fetch return success = false with a processing error (nothing is
\* raised to the orchestrator); the orchestrator then returns a failure
\* without advisories, and each fetch was called exactly once.
C19_MalformedPayloadIsFetchFailure ==
    /\ (pc \in {"get_weather_forecast", "check", "done"} /\ CurrentMalformed) =>
          /\ ~current_result.success
          /\ current_result.error[1] = "Weather data processing error: "
    /\ (pc \in {"check", "done"} /\ ForecastMalformed) =>
          /\ ~forecast_result.success
          /\ forecast_result.error[1] = "Forecast data processing error: "
    /\ (Done /\ (CurrentMalformed \/ ForecastMalformed)) =>
          /\ ~result.success
          /\ ~Has(result, "agricultural_suggestions")
          /\ ~Has(result, "current_weather")
          /\ calls = <<"get_current_weather", "get_weather_forecast">>

\* A call returned after the second entry of a two-entry forecast lacked
\* main.temp, and another after the current payload lacked the timestamp.
C19_Witness ==
    /\ Done
    /\ \/ /\ ForecastMalformed
          /\ current_result.success
          /\ Len(forecast_response.data.list) = 2
       \/ /\ CurrentMalformed
          /\ ~Present(current_response.data, <<"dt">>)
          /\ forecast_result.success

(***************************************************************************)
(* Repeated evaluations (checked under SpecRepeat).                        *)
(***************************************************************************)
\* A call has returned and the call before it was made with the same sample
\* and forecast.
EvaluatedTwice == pc = "suggest_return" /\ Has(previous, "month")

Season(month) ==
    CASE month \in {12, 1, 2}  -> "winter"
      [] month \in {3, 4, 5}   -> "spring"
      [] month \in {6, 7, 8}   -> "summer"
      [] month \in {9, 10, 11} -> "fall"

\* C20 as stated: two evaluations with the same sample and the same forecast
\* return identical advisory sets whenever they run.
C20_SameInputsSameAdvice ==
    EvaluatedTwice => suggestions = previous.suggestions

\* C20: two evaluations with the same sample and the same forecast return
\* identical advisory sets exactly when the months at which they run are in
\* the same season.
C20_SameInputsSameSeasonSameAdvice ==
    EvaluatedTwice =>
        (suggestions = previous.suggestions <=>
            Season(current_month) = Season(previous.month))

\* The example sample and forecast were evaluated in December and again in
\* January, with the same advice.
C20_Witness ==
    /\ EvaluatedTwice
    /\ current_weather = ExampleCurrent
    /\ forecast = ExampleForecast
    /\ previous.month = 12
    /\ current_month = 1
    /\ suggestions = previous.suggestions


(***************************************************************************)
(* Sequencing of the orchestrator (checked under Spec).                    *)
(***************************************************************************)
Helpers == {"_generate_agricultural_suggestions", "_get_forecast_summary"}

\* C21: the aggregator and the rule engine are called only after both
\* fetches have returned, in a run where both returned success; while a
\* fetch is outstanding nothing has been aggregated or evaluated, and a run
\* in which a fetch failed ends in a failure without either having run.
C21_HelpersStartAfterBothFetchesSucceeded ==
    /\ (\E h \in Helpers : Called(h)) =>
          /\ Len(calls) > 2
          /\ calls[1] = "get_current_weather"
          /\ calls[2] = "get_weather_forecast"
          /\ \A i \in 1..Len(calls) : calls[i] \in Helpers => i > 2
          /\ current_result.success
          /\ forecast_result.success
    /\ (pc \in {"get_current_weather", "get_weather_forecast", "check"}) =>
          /\ \A h \in Helpers : ~Called(h)
          /\ suggestions = None
          /\ forecast_summary = None
    /\ (Done /\ FetchFailed(current_result, forecast_result)) =>
          /\ ~result.success
          /\ \A h \in Helpers : ~Called(h)

\* A run ended with advice after both fetches succeeded.
C21_Witness ==
    /\ Done
    /\ result.success
    /\ calls = <<"get_current_weather", "get_weather_forecast",
                 "_generate_agricultural_suggestions", "_get_forecast_summary",
                 "_get_forecast_summary">>
    /\ Len(forecast) = 2


(***************************************************************************)
(* Dates of the daily summaries (checked under Spec).                      *)
(***************************************************************************)
\* The UTC calendar date (day number) of an epoch timestamp in hours.
UtcDate(dt) == dt \div 24

\* Position in the returned forecast_summary of the summary a sample went to.
SummaryOf(sample) ==
    CHOOSE k \in 1..Len(result.forecast_summary.items) :
        result.forecast_summary.items[k].date = DatePart(sample)

\* C22: two forecast entries go to the same daily summary exactly when their
\* epoch timestamps are on the same UTC calendar date, whatever the time zone
\* of the process, so there is one summary per UTC date of the payload.
C22_GroupsByUtcDate ==
    (Done /\ result.success) =>
        LET raw == forecast_response.data.list
        IN  /\ Len(forecast) = Len(raw)
            /\ \A i, j \in 1..Len(raw) :
                  (SummaryOf(forecast[i]) = SummaryOf(forecast[j]))
                      <=> (UtcDate(raw[i].dt) = UtcDate(raw[j].dt))
            /\ Len(result.forecast_summary.items) =
                  Cardinality({UtcDate(raw[i].dt) : i \in 1..Len(raw)})


(***************************************************************************)
(* Wind rule and shape of the advisory set (checked under SpecRules).      *)
(***************************************************************************)
\* C23: wind_speed > 10 puts the secure-plants item in immediate_actions and
\* the avoid-spraying item in crop_care; wind_speed <= 10 (10 included) puts
\* neither anywhere; this holds for every temperature, humidity and
\* description of the sample.
C23_WindRule ==
    SuggestionsReturned =>
        LET windy == current_weather.wind_speed > 10
        IN  /\ InList(WindAction, suggestions.immediate_actions) <=> windy
            /\ InList(WindCare, suggestions.crop_care) <=> windy
            /\ \A c \in Categories \ {"immediate_actions"} :
                  ~InList(WindAction, suggestions[c])
            /\ \A c \in Categories \ {"crop_care"} :
                  ~InList(WindCare, suggestions[c])

\* Wind exactly 10 while the frost, humidity and rain branches fired.
C23_Witness ==
    /\ SuggestionsReturned
    /\ current_weather.wind_speed = 10
    /\ current_weather.temperature = 3
    /\ current_weather.humidity = 81
    /\ suggestions.immediate_actions = <<FrostAction, RainAction>>
    /\ suggestions.crop_care = <<FrostCare, AirflowCare, WaterloggingCare>>


(***************************************************************************)
(* Temperatures and rain of a daily summary (checked under SpecAgg).       *)
(***************************************************************************)
RECURSIVE SumRain(_)
SumRain(xs) == IF xs = <<>> THEN 0 ELSE Head(xs).rain + SumRain(Tail(xs))

Temperatures(xs) == {xs[i].temperature : i \in 1..Len(xs)}

\* C24: for every date of the output, min_temp is the smallest and max_temp
\* the largest temperature among the samples of that date, and total_rain is
\* the sum of the rain of the samples of that date and of no other.
C24_MinMaxAndTotalRainPerDate ==
    (SummaryReturned /\ Truthy(forecast_summary)) =>
        \A i \in 1..Len(Summaries) :
            LET s  == Summaries[i]
                xs == SamplesOn(s.date)
                ts == Temperatures(xs)
            IN  /\ s.min_temp \in ts
                /\ \A t \in ts : s.min_temp <= t
                /\ s.max_temp \in ts
                /\ \A t \in ts : s.max_temp >= t
                /\ s.total_rain = SumRain(xs)

\* Three samples of one date with rain 6, 6 and 0, interleaved with a rainy
\* sample of another date.
C24_Witness ==
    /\ SummaryReturned
    /\ Len(forecast) = 4
    /\ Len(Summaries) = 2
    /\ DatePart(forecast[1]) # DatePart(forecast[2])
    /\ Summaries[1].total_rain = 12
    /\ Summaries[1].min_temp = 10
    /\ Summaries[1].max_temp = 30
    /\ Summaries[2].total_rain = 6
    /\ Len(SamplesOn(Summaries[1].date)) = 3


(***************************************************************************)
(* Inputs of the aggregator and the rule engine after their calls          *)
(* (checked under Spec).                                                   *)
(***************************************************************************)
\* C25: after the rule engine and the aggregator have returned, the current
\* sample and every forecast sample are as the normalizer produced them and as
\* the fetches returned them, and the payload's current_weather is that
\* normalized sample.
C25_InputsUnmodified ==
    (Done /\ result.success) =>
        LET sample  == FormatCurrentWeather(current_response.data, tz).value
            samples == FormatForecastData(forecast_response.data, tz).value
        IN  /\ current_weather = sample
            /\ current_result.current_weather = sample
            /\ result.current_weather = sample
            /\ forecast = samples
            /\ forecast_result.forecast = samples
            /\ Len(forecast) = Len(forecast_response.data.list)

\* Both helpers ran on a two-sample forecast and a sample for Mumbai.
C25_Witness ==
    /\ Done
    /\ result.success
    /\ Called("_generate_agricultural_suggestions")
    /\ Called("_get_forecast_summary")
    /\ Len(forecast) = 2
    /\ forecast[1].temperature # forecast[2].temperature
    /\ result.current_weather.city_name = "Mumbai"


(***************************************************************************)
(* Location of the user (checked under SpecApp).                           *)
(***************************************************************************)
\* update-location has accepted a location for the user: only it sets the
\* columns.
LocationAccepted == Has(user, "latitude") /\ Has(user, "longitude")

\* C26: once update-location has accepted a location (latitude 0 and
\* longitude 0 included), a weather-suggestion request is passed to
\* get_agricultural_suggestions with the stored coordinates and is not
\* answered with 'Location not set'.
C26_AcceptedLocationIsUsed ==
    (pc = "weather_suggestion" /\ LocationAccepted) =>
        /\ Get(http_response, "error", <<>>) # LocationNotSet
        /\ calls = <<"get_agricultural_suggestions">>
        /\ latitude = user.latitude
        /\ longitude = user.longitude


(***************************************************************************)
(* Order and number of the fetches (checked under Spec).                   *)
(***************************************************************************)
\* Number of calls of a fetch in the running call of the orchestrator.
TimesCalled(name) == Cardinality({i \in 1..Len(calls) : calls[i] = name})

\* C27: in every call of get_agricultural_suggestions the current-weather
\* fetch is issued first and the forecast fetch second, each exactly once,
\* also when the current-weather fetch has failed; no fetch is issued again.
C27_FetchOrder ==
    /\ pc = "get_current_weather" => calls = <<>>
    /\ pc = "get_weather_forecast" => calls = <<"get_current_weather">>
    /\ pc = "check" => calls = <<"get_current_weather", "get_weather_forecast">>
    /\ Done =>
          /\ SubSeq(calls, 1, 2) = <<"get_current_weather", "get_weather_forecast">>
          /\ TimesCalled("get_current_weather") = 1
          /\ TimesCalled("get_weather_forecast") = 1
    /\ (pc \in {"check", "done"} /\ ~current_result.success) =>
          /\ Has(forecast_response, "kind")
          /\ Has(forecast_result, "success")

\* The forecast was fetched, successfully, after the current-weather fetch
\* had failed with a provider error.
C27_Witness ==
    /\ Done
    /\ ~current_result.success
    /\ current_response.kind = "error"
    /\ forecast_result.success
    /\ Len(forecast_result.forecast) = 2
    /\ calls = <<"get_current_weather", "get_weather_forecast">>


(***************************************************************************)
(* The summary of the payload and the summary of the rule engine           *)
(* (checked under Spec).                                                   *)
(***************************************************************************)
\* C28: the forecast_summary of a success payload is the aggregator's output
\* on the unmodified forecast, the one the rule engine used: the rain tips and
\* the trend tips of the payload are those that the first three entries of
\* the payload's forecast_summary give, and there are none when it is empty.
C28_PayloadSummaryIsRuleSummary ==
    (Done /\ result.success) =>
        LET items == result.forecast_summary.items
            days  == FirstDaysOf(items)
            rain  == SumOver(days, "total_rain")
            total == SumOver(days, "max_temp")
            temp  == result.current_weather.temperature
            sg    == result.agricultural_suggestions
        IN  /\ result.forecast_summary = GetForecastSummary(forecast_result.forecast)
            /\ items = <<>> =>
                  \A c \in Categories : \A t \in ForecastTips : ~InList(t, sg[c])
            /\ items # <<>> =>
                  /\ InList(HeavyRainPlanning, sg.weekly_planning) <=> rain > 10
                  /\ InList(HeavyRainIrrigation, sg.irrigation) <=> rain > 10
                  /\ InList(NoRainIrrigation, sg.irrigation) <=> rain < 1
                  /\ InList(RisingPlanning, sg.weekly_planning)
                        <=> total > (temp + 5) * Len(days)
                  /\ InList(FallingPlanning, sg.weekly_planning)
                        <=> (total <= (temp + 5) * Len(days)
                             /\ total < (temp - 5) * Len(days))

\* Four daily summaries with 5, 0, 5 and 6 mm: the first three give 10 mm and
\* no heavy-rain item, although the fourth would bring the sum above 10.
C28_Witness ==
    /\ Done
    /\ result.success
    /\ Len(result.forecast_summary.items) = 4
    /\ result.forecast_summary.items[4].total_rain = 6
    /\ SumOver(FirstDaysOf(result.forecast_summary.items), "total_rain") = 10
    /\ ~InList(HeavyRainPlanning, result.agricultural_suggestions.weekly_planning)


\* No text occurs twice in the list.
NoRepeat(list) == \A i, j \in 1..Len(list) : list[i] = list[j] => i = j

\* C29: in the advisory set of one evaluation no text occurs twice in a
\* category list; immediate_actions has at most 3 items, pest_disease_alerts
\* at most 1 and is non-empty exactly when humidity > 80, crop_care at most
\* 5, irrigation at most 5 and weekly_planning at most 4.
C29_ListsBoundedWithoutRepeats ==
    SuggestionsReturned =>
        /\ \A c \in Categories : NoRepeat(suggestions[c])
        /\ Len(suggestions.immediate_actions) <= 3
        /\ Len(suggestions.pest_disease_alerts) <= 1
        /\ (suggestions.pest_disease_alerts # <<>>) <=> (current_weather.humidity > 80)
        /\ Len(suggestions.crop_care) <= 5
        /\ Len(suggestions.irrigation) <= 5
        /\ Len(suggestions.weekly_planning) <= 4

\* A hot, dry, clear, windy summer day before three wet days: irrigation
\* holds five tips, weekly_planning three.
C29_Witness ==
    /\ SuggestionsReturned
    /\ Len(suggestions.irrigation) = 5
    /\ Len(suggestions.weekly_planning) = 3
    /\ Len(suggestions.immediate_actions) = 2
    /\ suggestions.pest_disease_alerts = <<>>
    /\ current_weather.humidity = 29


(***************************************************************************)
(* Totality of the orchestrator (checked under Spec).                      *)
(***************************************************************************)
SuccessFields ==
    {"current_weather", "forecast_summary", "agricultural_suggestions", "location"}

\* Outcome of a fetch: provider failure, malformed payload or success.
Outcome(response, fetch_result) ==
    IF response.kind = "error" THEN "provider failure"
    ELSE IF ~fetch_result.success THEN "malformed payload"
    ELSE "success"

\* C30: for every combination of success, provider failure and malformed
\* payload of the two fetches, each fetch result has a boolean success and,
\* when it is true, the field the orchestrator subscripts (so no KeyError
\* arises in it), and what the orchestrator returns has a boolean success,
\* an error exactly when success is false, and current_weather,
\* forecast_summary, agricultural_suggestions and location exactly when
\* success is true, which is when both outcomes are success.
C30_TotalOverFetchOutcomes ==
    /\ pc \in {"check", "done"} =>
          /\ Has(current_result, "success") /\ current_result.success \in BOOLEAN
          /\ Has(forecast_result, "success") /\ forecast_result.success \in BOOLEAN
          /\ current_result.success => Has(current_result, "current_weather")
          /\ forecast_result.success => Has(forecast_result, "forecast")
    /\ Done =>
          /\ Has(result, "success")
          /\ result.success \in BOOLEAN
          /\ Has(result, "error") <=> ~result.success
          /\ \A f \in SuccessFields : Has(result, f) <=> result.success
          /\ result.success <=>
                (Outcome(current_response, current_result) = "success"
                 /\ Outcome(forecast_response, forecast_result) = "success")

\* The call returned after a malformed current payload and a provider
\* failure of the forecast fetch.
C30_Witness ==
    /\ Done
    /\ Outcome(current_response, current_result) = "malformed payload"
    /\ Outcome(forecast_response, forecast_result) = "provider failure"
    /\ DOMAIN result = {"success", "error"}
    /\ ~result.success

====
